---- MODULE Spec2Model ----
(***************************************************************************)
(* A model of maturin_import_hook/_resolve_project.py: the typed TOML      *)
(* reader, the Cargo manifest lookup, the module-name / python-root /      *)
(* extension-layout resolution, the path-dependency walker and the         *)
(* memoising ProjectResolver.                                              *)
(*                                                                         *)
(* Strings are sequences of one-character strings, so that str.split,      *)
(* str.replace and pathlib's joining are computed rather than assumed.     *)
(* A path is the sequence of its segments below the filesystem root.       *)
(* A TOML value is a tagged record [t, v]; a table is the sequence of its  *)
(* [k, v] entries in declaration order (a Python dict keeps that order).   *)
(***************************************************************************)
EXTENDS Integers, Sequences, FiniteSets, TLC

VARIABLES
    fs,                     \* the filesystem: path -> [kind, ok, data]
    cache,                  \* ProjectResolver._resolved_project_cache
    last,                   \* per directory, how the latest resolve() call ended
    reads,                  \* per directory, how often _resolve_project ran
    args,                   \* the arguments of the function under check
    out,                    \* what the function under check returned
    pc,                     \* position of the caller / of the walker loop
    to_search,              \* _find_all_path_dependencies: the work list
    all_path_dependencies,  \* _find_all_path_dependencies: the visited set
    loads                   \* per directory, how often its Cargo.toml was loaded

vars == <<fs, cache, last, reads, args, out, pc, to_search, all_path_dependencies, loads>>

(***************************************************************************)
(* Strings                                                                 *)
(***************************************************************************)
S_pyproject == <<"p","y","p","r","o","j","e","c","t",".","t","o","m","l">>
S_cargo == <<"C","a","r","g","o",".","t","o","m","l">>
S_rust_cargo == <<"r","u","s","t","/">> \o S_cargo
S_src == <<"s","r","c">>
S_init == <<"_","_","i","n","i","t","_","_",".","p","y">>

\* the characters in use, in code point order
CharOrder == <<"-", ".", "/", "C", "_", "a", "b", "c", "d", "e", "g", "i", "j", "l",
               "m", "n", "o", "p", "r", "s", "t", "u", "x", "y">>

Ord(c) == CHOOSE i \in 1..Len(CharOrder) : CharOrder[i] = c

RECURSIVE StrLess(_, _)
StrLess(s, t) ==
    IF t = <<>> THEN FALSE
    ELSE IF s = <<>> THEN TRUE
    ELSE IF s[1] = t[1] THEN StrLess(Tail(s), Tail(t))
    ELSE Ord(s[1]) < Ord(t[1])

\* str.split(sep) for a one-character separator: never empty, "" -> [""]
RECURSIVE Split(_, _)
Split(s, sep) ==
    IF \A i \in 1..Len(s) : s[i] # sep THEN <<s>>
    ELSE LET i == CHOOSE j \in 1..Len(s) :
                      s[j] = sep /\ \A k \in 1..(j - 1) : s[k] # sep
         IN <<SubSeq(s, 1, i - 1)>> \o Split(SubSeq(s, i + 1, Len(s)), sep)

\* str.replace(old, new) for one-character old and new
Replace(s, old, new) == [i \in 1..Len(s) |-> IF s[i] = old THEN new ELSE s[i]]

(***************************************************************************)
(* Paths (pathlib.PurePosixPath)                                           *)
(***************************************************************************)
IsAbsolute(s) == Len(s) > 0 /\ s[1] = "/"

\* the segments of a path string: empty and "." segments are dropped
Segments(s) == SelectSeq(Split(s, "/"), LAMBDA seg : seg # <<>> /\ seg # <<".">>)

\* path / string: an absolute right operand replaces the left one
JoinStr(p, s) == IF IsAbsolute(s) THEN Segments(s) ELSE p \o Segments(s)

\* path / Path(*strs)
RECURSIVE JoinAll(_, _)
JoinAll(p, strs) ==
    IF strs = <<>> THEN p ELSE JoinAll(JoinStr(p, Head(strs)), Tail(strs))

Parent(p) == IF p = <<>> THEN p ELSE SubSeq(p, 1, Len(p) - 1)

\* Path.resolve() on a filesystem without symlinks: ".." segments are collapsed
RECURSIVE ResolvePath(_)
ResolvePath(p) ==
    IF p = <<>> THEN <<>>
    ELSE LET r == ResolvePath(SubSeq(p, 1, Len(p) - 1)) IN
         IF p[Len(p)] = <<".", ".">> THEN Parent(r) ELSE Append(r, p[Len(p)])

IsPrefix(p, q) == Len(p) <= Len(q) /\ SubSeq(q, 1, Len(p)) = p

\* the order of Path objects: their parts compared as lists of strings
RECURSIVE PathLess(_, _)
PathLess(p, q) ==
    IF q = <<>> THEN FALSE
    ELSE IF p = <<>> THEN TRUE
    ELSE IF p[1] = q[1] THEN PathLess(Tail(p), Tail(q))
    ELSE StrLess(p[1], q[1])

\* sorted(set of paths)
RECURSIVE Sorted(_)
Sorted(S) ==
    IF S = {} THEN <<>>
    ELSE LET m == CHOOSE x \in S : \A y \in S \ {x} : PathLess(x, y)
         IN <<m>> \o Sorted(S \ {m})

(***************************************************************************)
(* The filesystem                                                          *)
(***************************************************************************)
DirEntry == [kind |-> "dir", ok |-> FALSE, data |-> <<>>]
FileEntry(ok, data) == [kind |-> "file", ok |-> ok, data |-> data]

\* Path.exists(): the path is an entry or an ancestor directory of one
Exists(f, p) == \E q \in DOMAIN f : IsPrefix(p, q)

\* Path.is_file()
IsFile(f, p) == p \in DOMAIN f /\ f[p].kind = "file"

\* What path.open("rb") followed by tomllib.load raises, "none" when it loads
LoadError(f, p) ==
    IF ~Exists(f, p) THEN "FileNotFoundError"
    ELSE IF ~IsFile(f, p) THEN "IsADirectoryError"
    ELSE IF ~f[p].ok THEN "TOMLDecodeError"
    ELSE "none"

\* _TomlFile.load(path).data, where LoadError is "none"
Load(f, p) == f[p].data

(***************************************************************************)
(* TOML values                                                             *)
(***************************************************************************)
NoneV == [t |-> "none", v |-> <<>>]
StrV(s) == [t |-> "str", v |-> s]
IntV == [t |-> "int", v |-> <<>>]
ListV(l) == [t |-> "list", v |-> l]
DictV(d) == [t |-> "dict", v |-> d]
KV(k, v) == [k |-> k, v |-> v]

\* dict.get(key): None when the key is missing
DictGet(d, key) ==
    IF \E i \in 1..Len(d) : d[i].k = key
    THEN d[CHOOSE i \in 1..Len(d) : d[i].k = key].v
    ELSE NoneV

\* the loop of get_value: "none" (a key is missing), "invalid" (a parent
\* is not a table) or "end" (the terminal value was reached)
RECURSIVE GetWalk(_, _, _)
GetWalk(current_data, keys, i) ==
    LET nxt == DictGet(current_data, keys[i]) IN
    IF nxt.t = "none" THEN [st |-> "none", val |-> NoneV]
    ELSE IF i < Len(keys) /\ nxt.t # "dict" THEN [st |-> "invalid", val |-> nxt]
    ELSE IF i = Len(keys) THEN [st |-> "end", val |-> nxt]
    ELSE GetWalk(nxt.v, keys, i + 1)

\* _TomlFile.get_value(keys, required_type)
get_value(data, keys, required_type) ==
    LET w == GetWalk(data, keys, 1) IN
    IF w.st = "none" THEN NoneV
    ELSE IF w.st = "invalid" \/ w.val.t # required_type THEN NoneV
    ELSE w.val

\* _TomlFile.get_value_or_default(keys, required_type, default)
get_value_or_default(data, keys, required_type, default) ==
    LET value == get_value(data, keys, required_type) IN
    IF value.t = "none" THEN default ELSE value

(***************************************************************************)
(* Local variables                                                         *)
(***************************************************************************)
\* Body applied to the value of e, computed once: an assignment to a local
\* variable followed by the code that uses it
Local(e, Body(_)) == CHOOSE r \in {Body(x) : x \in {e}} : TRUE

(***************************************************************************)
(* Results                                                                 *)
(***************************************************************************)
NoPath == [some |-> FALSE, p |-> <<>>]
SomePath(p) == [some |-> TRUE, p |-> p]

\* the filler of a result that carries no project
NoProject ==
    [cargo_manifest_path |-> <<>>, module_full_name |-> <<>>, python_dir |-> <<>>,
     python_module |-> NoPath, extension_module_dir |-> NoPath,
     immediate_path_dependencies |-> <<>>]

(***************************************************************************)
(* find_cargo_manifest                                                     *)
(***************************************************************************)
\* find_cargo_manifest with the two default locations tried in the other
\* order; C6_ManifestChoice tells it from find_cargo_manifest
find_cargo_manifest_rust_first(f, project_dir) ==
    LET pyproject_path == JoinStr(project_dir, S_pyproject)
        load_error == IF Exists(f, pyproject_path)
                      THEN LoadError(f, pyproject_path) ELSE "none"
        relative_manifest_path ==
            IF Exists(f, pyproject_path) /\ load_error = "none"
            THEN get_value(Load(f, pyproject_path),
                           <<"tool", "maturin", "manifest-path">>, "str")
            ELSE NoneV
        manifest_path == JoinStr(project_dir, S_cargo)
        rust_manifest_path == JoinStr(project_dir, S_rust_cargo)
    IN  IF load_error # "none" THEN [exc |-> load_error, path |-> NoPath]
        ELSE IF relative_manifest_path.t # "none"
             THEN [exc |-> "none",
                   path |-> SomePath(JoinStr(project_dir, relative_manifest_path.v))]
        ELSE IF Exists(f, rust_manifest_path)
             THEN [exc |-> "none", path |-> SomePath(rust_manifest_path)]
        ELSE IF Exists(f, manifest_path)
             THEN [exc |-> "none", path |-> SomePath(manifest_path)]
        ELSE [exc |-> "none", path |-> NoPath]

find_cargo_manifest(f, project_dir) ==
    LET pyproject_path == JoinStr(project_dir, S_pyproject)
        load_error == IF Exists(f, pyproject_path)
                      THEN LoadError(f, pyproject_path) ELSE "none"
        relative_manifest_path ==
            IF Exists(f, pyproject_path) /\ load_error = "none"
            THEN get_value(Load(f, pyproject_path),
                           <<"tool", "maturin", "manifest-path">>, "str")
            ELSE NoneV
        manifest_path == JoinStr(project_dir, S_cargo)
        rust_manifest_path == JoinStr(project_dir, S_rust_cargo)
    IN  IF load_error # "none" THEN [exc |-> load_error, path |-> NoPath]
        ELSE IF relative_manifest_path.t # "none"
             THEN [exc |-> "none",
                   path |-> SomePath(JoinStr(project_dir, relative_manifest_path.v))]
        ELSE IF Exists(f, manifest_path)
             THEN [exc |-> "none", path |-> SomePath(manifest_path)]
        ELSE IF Exists(f, rust_manifest_path)
             THEN [exc |-> "none", path |-> SomePath(rust_manifest_path)]
        ELSE [exc |-> "none", path |-> NoPath]

(***************************************************************************)
(* _resolve_module_name                                                    *)
(***************************************************************************)
\* _resolve_module_name with project.name looked up before lib.name;
\* C1_Precedence tells it from resolve_module_name
resolve_module_name_project_first(pyproject, cargo) ==
    LET t1 == get_value(pyproject, <<"tool", "maturin", "module-name">>, "str")
        t2 == get_value(cargo, <<"lib", "name">>, "str")
        t3 == get_value(pyproject, <<"project", "name">>, "str")
    IN  IF t1.t # "none" THEN t1
        ELSE IF t3.t # "none" THEN t3
        ELSE IF t2.t # "none" THEN t2
        ELSE get_value(cargo, <<"package", "name">>, "str")

resolve_module_name(pyproject, cargo) ==
    LET t1 == get_value(pyproject, <<"tool", "maturin", "module-name">>, "str")
        t2 == get_value(cargo, <<"lib", "name">>, "str")
        t3 == get_value(pyproject, <<"project", "name">>, "str")
    IN  IF t1.t # "none" THEN t1
        ELSE IF t2.t # "none" THEN t2
        ELSE IF t3.t # "none" THEN t3
        ELSE get_value(cargo, <<"package", "name">>, "str")

(***************************************************************************)
(* _resolve_rust_module                                                    *)
(***************************************************************************)
\* _resolve_rust_module with the last component kept in the extension
\* directory; C9_Layout tells it from resolve_rust_module
resolve_rust_module_all_parts(python_dir, module_name) ==
    LET parts == Split(module_name, ".") IN
    IF Len(parts) > 1
    THEN [python_module |-> JoinStr(python_dir, parts[1]),
          extension_module_dir |-> JoinAll(python_dir, parts),
          extension_module_name |-> parts[Len(parts)]]
    ELSE [python_module |-> JoinStr(python_dir, module_name),
          extension_module_dir |-> JoinStr(python_dir, module_name),
          extension_module_name |-> module_name]

resolve_rust_module(python_dir, module_name) ==
    LET parts == Split(module_name, ".") IN
    IF Len(parts) > 1
    THEN [python_module |-> JoinStr(python_dir, parts[1]),
          extension_module_dir |-> JoinAll(python_dir, SubSeq(parts, 1, Len(parts) - 1)),
          extension_module_name |-> parts[Len(parts)]]
    ELSE [python_module |-> JoinStr(python_dir, module_name),
          extension_module_dir |-> JoinStr(python_dir, module_name),
          extension_module_name |-> module_name]

(***************************************************************************)
(* _get_immediate_path_dependencies                                        *)
(***************************************************************************)
\* the loop over dependencies.values(): manifest_dir_path / relative_path
\* raises TypeError when relative_path is not a string
RECURSIVE PathDependenciesLoop(_, _, _, _)
PathDependenciesLoop(manifest_dir_path, deps, i, path_dependencies) ==
    IF i > Len(deps) THEN [exc |-> "none", deps |-> path_dependencies]
    ELSE LET dependency == deps[i].v
             relative_path == IF dependency.t = "dict"
                              THEN DictGet(dependency.v, "path") ELSE NoneV
         IN  IF dependency.t # "dict" \/ relative_path.t = "none"
             THEN PathDependenciesLoop(manifest_dir_path, deps, i + 1, path_dependencies)
             ELSE IF relative_path.t # "str"
             THEN [exc |-> "TypeError", deps |-> <<>>]
             ELSE PathDependenciesLoop(manifest_dir_path, deps, i + 1,
                      Append(path_dependencies,
                             ResolvePath(JoinStr(manifest_dir_path, relative_path.v))))

get_immediate_path_dependencies(manifest_dir_path, cargo) ==
    PathDependenciesLoop(manifest_dir_path,
        get_value_or_default(cargo, <<"dependencies">>, "dict", DictV(<<>>)).v,
        1, <<>>)

(***************************************************************************)
(* _resolve_py_root                                                        *)
(***************************************************************************)
\* any((project_dir / p / "__init__.py").is_file() for p in items), evaluated
\* left to right: it stops at the first hit, and project_dir / p raises
\* TypeError when p is not a string
RECURSIVE AnyInitFile(_, _, _, _)
AnyInitFile(f, project_dir, items, i) ==
    IF i > Len(items) THEN [exc |-> "none", found |-> FALSE]
    ELSE IF items[i].t # "str" THEN [exc |-> "TypeError", found |-> FALSE]
    ELSE IF IsFile(f, JoinStr(JoinStr(project_dir, items[i].v), S_init))
         THEN [exc |-> "none", found |-> TRUE]
    ELSE AnyInitFile(f, project_dir, items, i + 1)

\* _resolve_py_root with "or" in place of "and" at line 264; C8_PyRoot tells
\* it from resolve_py_root
resolve_py_root_either(f, project_dir, pyproject) ==
    LET py_root == get_value(pyproject, <<"tool", "maturin", "python-source">>, "str")
        project_name == get_value(pyproject, <<"project", "name">>, "str")
        rust_cargo_toml_found == Exists(f, JoinStr(project_dir, S_rust_cargo))
        python_packages ==
            get_value_or_default(pyproject, <<"tool", "maturin", "python-packages">>,
                                 "list", ListV(<<>>))
        package_name == Replace(project_name.v, "-", "_")
        python_src == AnyInitFile(f, project_dir,
                          <<StrV(S_src \o <<"/">> \o package_name \o <<"/">>)>>
                              \o python_packages.v, 1)
    IN  IF py_root.t # "none" THEN [exc |-> "none", p |-> JoinStr(project_dir, py_root.v)]
        ELSE IF project_name.t = "none" THEN [exc |-> "none", p |-> project_dir]
        ELSE IF python_src.exc # "none" THEN [exc |-> python_src.exc, p |-> <<>>]
        ELSE IF rust_cargo_toml_found \/ python_src.found
             THEN [exc |-> "none", p |-> JoinStr(project_dir, S_src)]
        ELSE [exc |-> "none", p |-> project_dir]

resolve_py_root(f, project_dir, pyproject) ==
    LET py_root == get_value(pyproject, <<"tool", "maturin", "python-source">>, "str")
        project_name == get_value(pyproject, <<"project", "name">>, "str")
        rust_cargo_toml_found == Exists(f, JoinStr(project_dir, S_rust_cargo))
        python_packages ==
            get_value_or_default(pyproject, <<"tool", "maturin", "python-packages">>,
                                 "list", ListV(<<>>))
        package_name == Replace(project_name.v, "-", "_")
        python_src == AnyInitFile(f, project_dir,
                          <<StrV(S_src \o <<"/">> \o package_name \o <<"/">>)>>
                              \o python_packages.v, 1)
    IN  IF py_root.t # "none" THEN [exc |-> "none", p |-> JoinStr(project_dir, py_root.v)]
        ELSE IF project_name.t = "none" THEN [exc |-> "none", p |-> project_dir]
        ELSE IF python_src.exc # "none" THEN [exc |-> python_src.exc, p |-> <<>>]
        ELSE IF rust_cargo_toml_found /\ python_src.found
             THEN [exc |-> "none", p |-> JoinStr(project_dir, S_src)]
        ELSE [exc |-> "none", p |-> project_dir]

(***************************************************************************)
(* _resolve_project                                                        *)
(***************************************************************************)
Raise(e) == [exc |-> e, proj |-> NoProject]

\* lines 183-185 with the test made on extension_module_dir;
\* C4_LayoutPresence tells it from ExistingLayout
ExistingExtensionDir(f, layout) ==
    IF ~Exists(f, layout.extension_module_dir)
    THEN [python_module |-> NoPath, extension_module_dir |-> NoPath]
    ELSE [python_module |-> SomePath(layout.python_module),
          extension_module_dir |-> SomePath(layout.extension_module_dir)]

\* lines 183-185: both paths are cleared when python_module is not on disk
ExistingLayout(f, layout) ==
    IF ~Exists(f, layout.python_module)
    THEN [python_module |-> NoPath, extension_module_dir |-> NoPath]
    ELSE [python_module |-> SomePath(layout.python_module),
          extension_module_dir |-> SomePath(layout.extension_module_dir)]

resolve_project(f, project_dir) ==
    IF ~Exists(f, JoinStr(project_dir, S_pyproject))
    THEN Raise("_ProjectResolveError")
    ELSE IF LoadError(f, JoinStr(project_dir, S_pyproject)) # "none"
    THEN Raise(LoadError(f, JoinStr(project_dir, S_pyproject)))
    ELSE
    Local(Load(f, JoinStr(project_dir, S_pyproject)), LAMBDA pyproject :
    Local(find_cargo_manifest(f, project_dir), LAMBDA found :
        IF found.exc # "none" THEN Raise(found.exc)
        ELSE IF ~found.path.some THEN Raise("_ProjectResolveError")
        ELSE
    Local(found.path.p, LAMBDA manifest_path :
        IF LoadError(f, manifest_path) # "none"
        THEN Raise(LoadError(f, manifest_path))
        ELSE
    Local(Load(f, manifest_path), LAMBDA cargo :
    Local(resolve_module_name(pyproject, cargo), LAMBDA module_full_name :
        IF module_full_name.t = "none" THEN Raise("_ProjectResolveError")
        ELSE
    Local(resolve_py_root(f, project_dir, pyproject), LAMBDA python_dir :
        IF python_dir.exc # "none" THEN Raise(python_dir.exc)
        ELSE
    Local(resolve_rust_module(python_dir.p, module_full_name.v), LAMBDA layout :
    Local(get_immediate_path_dependencies(Parent(manifest_path), cargo),
          LAMBDA immediate :
        IF immediate.exc # "none" THEN Raise(immediate.exc)
        ELSE
    Local(ExistingLayout(f, layout), LAMBDA existing :
        [exc |-> "none",
         proj |-> [cargo_manifest_path |-> manifest_path,
                   module_full_name |-> module_full_name.v,
                   python_dir |-> python_dir.p,
                   python_module |-> existing.python_module,
                   extension_module_dir |-> existing.extension_module_dir,
                   immediate_path_dependencies |-> immediate.deps]])))))))))

(***************************************************************************)
(* Config files of every shape a key can take                              *)
(***************************************************************************)
\* the table in which keys[i..] lead to leaf
RECURSIVE Wrap(_, _, _)
Wrap(keys, i, leaf) ==
    IF i > Len(keys) THEN <<>>
    ELSE <<KV(keys[i], IF i = Len(keys) THEN leaf ELSE DictV(Wrap(keys, i + 1, leaf)))>>

Shapes == {"no_root", "root_not_table", "missing", "parent_not_table",
           "int", "list", "empty", "string"}

\* a table holding the key path keys in the given shape; s is the string used
Build(keys, shape, s) ==
    LET parents == SubSeq(keys, 1, Len(keys) - 1) IN
    CASE shape = "no_root" -> <<>>
      [] shape = "root_not_table" -> <<KV(keys[1], IntV)>>
      [] shape = "missing" -> Wrap(parents, 1, DictV(<<>>))
      [] shape = "parent_not_table" -> Wrap(parents, 1, StrV(s))
      [] shape = "int" -> Wrap(keys, 1, IntV)
      [] shape = "list" -> Wrap(keys, 1, ListV(<<StrV(s)>>))
      [] shape = "empty" -> Wrap(keys, 1, StrV(<<>>))
      [] shape = "string" -> Wrap(keys, 1, StrV(s))

\* a key holds a value exactly when it is a string, the empty one included
WellTyped(shape) == shape \in {"empty", "string"}
Held(shape, s) == IF shape = "empty" THEN <<>> ELSE s

\* values left unused by a specification
Idle == <<>>

(***************************************************************************)
(* SpecModuleName: _resolve_module_name over all shapes of its four keys   *)
(***************************************************************************)
TierKeys == << <<"tool", "maturin", "module-name">>, <<"lib", "name">>,
               <<"project", "name">>, <<"package", "name">> >>
TierName == << <<"a", ".", "b">>, <<"c">>, <<"d", "-", "e">>, <<"e">> >>

TierTable(shapes, i) == Build(TierKeys[i], shapes[i], TierName[i])

InitModuleName ==
    /\ \E shapes \in [1..4 -> Shapes] :
          args = [shapes |-> shapes,
                  pyproject |-> TierTable(shapes, 1) \o TierTable(shapes, 3),
                  cargo |-> TierTable(shapes, 2) \o TierTable(shapes, 4)]
    /\ out = NoneV
    /\ pc = "call"
    /\ fs = Idle /\ cache = Idle /\ last = Idle /\ reads = Idle
    /\ to_search = Idle /\ all_path_dependencies = Idle /\ loads = Idle

CallResolveModuleName ==
    /\ pc = "call"
    /\ out' = resolve_module_name(args.pyproject, args.cargo)
    /\ pc' = "done"
    /\ UNCHANGED <<fs, cache, last, reads, args, to_search, all_path_dependencies, loads>>

NextModuleName == CallResolveModuleName

SpecModuleName == InitModuleName /\ [][NextModuleName]_vars

\* C1: the resolved module name is the value of the first of the four keys
\* (tool.maturin.module-name, lib.name, project.name, package.name) that holds
\* a string, and it is absent exactly when none of the four holds a string.
C1_Precedence ==
    pc = "done" =>
        LET present == {i \in 1..4 : WellTyped(args.shapes[i])} IN
        IF present = {} THEN out.t = "none"
        ELSE LET first == CHOOSE i \in present : \A j \in present : i <= j
             IN out = StrV(Held(args.shapes[first], TierName[first]))

\* tier 1 is malformed, tiers 2 to 4 hold strings, and tier 2 was returned
C1_Witness ==
    /\ pc = "done"
    /\ args.shapes[1] = "list"
    /\ \A i \in 2..4 : args.shapes[i] = "string"
    /\ out = StrV(TierName[2])

(***************************************************************************)
(* SpecLayout: _resolve_rust_module over dotted names                      *)
(***************************************************************************)
MaxCompLen == 1
MaxParts == 3

CompChars == {"a", "b"}
Components == UNION {[1..k -> CompChars] : k \in 0..MaxCompLen}
ComponentLists == UNION {[1..n -> Components] : n \in 1..MaxParts}
SourceRoots == {<<>>, << <<"r">> >>, << <<"r">>, S_src >>}

\* ".".join(components)
RECURSIVE JoinDots(_)
JoinDots(c) ==
    IF Len(c) = 1 THEN c[1] ELSE c[1] \o <<".">> \o JoinDots(Tail(c))

InitLayout ==
    /\ \E c \in ComponentLists, root \in SourceRoots :
          args = [components |-> c, module_name |-> JoinDots(c), python_dir |-> root]
    /\ out = Idle
    /\ pc = "call"
    /\ fs = Idle /\ cache = Idle /\ last = Idle /\ reads = Idle
    /\ to_search = Idle /\ all_path_dependencies = Idle /\ loads = Idle

CallResolveRustModule ==
    /\ pc = "call"
    /\ out' = resolve_rust_module(args.python_dir, args.module_name)
    /\ pc' = "done"
    /\ UNCHANGED <<fs, cache, last, reads, args, to_search, all_path_dependencies, loads>>

NextLayout == CallResolveRustModule

SpecLayout == InitLayout /\ [][NextLayout]_vars

\* root / c1 / ... / ck for components that hold no path separator: pathlib
\* skips an empty component
Under(root, comps) == root \o SelectSeq(comps, LAMBDA c : c # <<>>)

\* C9: for a name c1.c2...cn under source_root, n > 1 gives the package path
\* source_root/c1, the extension directory source_root/c1/.../c(n-1) and the
\* leaf cn; n = 1 gives source_root/c1 for both paths and the leaf c1; the
\* package path is always the extension directory or an ancestor of it.
C9_Layout ==
    pc = "done" =>
        LET c == args.components
            n == Len(c)
            root == args.python_dir
        IN  /\ n > 1 => /\ out.python_module = Under(root, <<c[1]>>)
                        /\ out.extension_module_dir = Under(root, SubSeq(c, 1, n - 1))
                        /\ out.extension_module_name = c[n]
            /\ n = 1 => /\ out.python_module = Under(root, <<c[1]>>)
                        /\ out.extension_module_dir = Under(root, <<c[1]>>)
                        /\ out.extension_module_name = c[1]
            /\ IsPrefix(out.python_module, out.extension_module_dir)

\* a three-component name: the extension directory lies below the package
C9_Witness ==
    /\ pc = "done"
    /\ args.components = << <<"a">>, <<"b">>, <<"a">> >>
    /\ args.python_dir = << <<"r">> >>
    /\ out.python_module = << <<"r">>, <<"a">> >>
    /\ out.extension_module_dir = << <<"r">>, <<"a">>, <<"b">> >>
    /\ out.extension_module_name = <<"a">>

(***************************************************************************)
(* SpecManifest: find_cargo_manifest over the files of a project directory *)
(***************************************************************************)
ProjectDir == << <<"p">> >>

\* a filesystem from a set of [path, entry] pairs
FsOf(entries) ==
    [q \in {e.path : e \in entries} |-> (CHOOSE e \in entries : e.path = q).entry]

At(path, entry) == [path |-> path, entry |-> entry]

\* the entries of a TOML file: none when missing, one that fails to parse,
\* or one holding data
TomlEntries(path, kind, data) ==
    CASE kind = "missing" -> {}
      [] kind = "garbage" -> {At(path, FileEntry(FALSE, <<>>))}
      [] kind = "parsed" -> {At(path, FileEntry(TRUE, data))}
      [] kind = "dir" -> {At(path, DirEntry)}

ManifestPathKeys == <<"tool", "maturin", "manifest-path">>

\* overrides: a file that does not exist, the nested manifest, an absolute path
Overrides == {<<"x", "/">> \o S_cargo, S_rust_cargo, <<"/", "x">>}

InitManifest ==
    /\ \E kind \in {"missing", "garbage", "parsed"}, shape \in Shapes,
          override \in Overrides, cargo \in {"missing", "parsed", "dir"},
          rust \in {"missing", "parsed"} :
          /\ args = [project_dir |-> ProjectDir, pyproject |-> kind, shape |-> shape,
                     override |-> override, cargo |-> cargo, rust |-> rust]
          /\ fs = FsOf(TomlEntries(JoinStr(ProjectDir, S_pyproject), kind,
                                   Build(ManifestPathKeys, shape, override))
                       \cup TomlEntries(JoinStr(ProjectDir, S_cargo), cargo, <<>>)
                       \cup TomlEntries(JoinStr(ProjectDir, S_rust_cargo), rust, <<>>))
    /\ out = Idle
    /\ pc = "call"
    /\ cache = Idle /\ last = Idle /\ reads = Idle
    /\ to_search = Idle /\ all_path_dependencies = Idle /\ loads = Idle

CallFindCargoManifest ==
    /\ pc = "call"
    /\ out' = find_cargo_manifest(fs, args.project_dir)
    /\ pc' = "done"
    /\ UNCHANGED <<fs, cache, last, reads, args, to_search, all_path_dependencies, loads>>

NextManifest == CallFindCargoManifest

SpecManifest == InitManifest /\ [][NextManifest]_vars

LeafShapes == {"missing", "int", "list", "empty", "string"}

\* the entries a key adds to its table
Leaf(key, shape, s) ==
    CASE shape = "missing" -> <<>>
      [] shape = "int" -> <<KV(key, IntV)>>
      [] shape = "list" -> <<KV(key, ListV(<<StrV(s)>>))>>
      [] shape = "empty" -> <<KV(key, StrV(<<>>))>>
      [] shape = "string" -> <<KV(key, StrV(s))>>

S_pk == <<"p", "k">>

\* the elements of tool.maturin.python-packages, where it is a list
PackagesList(shape) ==
    CASE shape = "empty_list" -> <<>>
      [] shape = "listed" -> <<StrV(S_pk)>>
      [] shape = "bad" -> <<IntV>>
      [] shape = "listed_bad" -> <<StrV(S_pk), IntV>>
      [] shape = "bad_listed" -> <<IntV, StrV(S_pk)>>
      [] OTHER -> <<>>

PackagesShapes == {"missing", "int", "str", "empty_list", "listed", "bad",
                   "listed_bad", "bad_listed"}

PackagesLeaf(shape) ==
    CASE shape = "missing" -> <<>>
      [] shape = "int" -> <<KV("python-packages", IntV)>>
      [] shape = "str" -> <<KV("python-packages", StrV(S_pk))>>
      [] OTHER -> <<KV("python-packages", ListV(PackagesList(shape)))>>

IsList(shape) == shape \notin {"missing", "int", "str"}

MaturinShapes == {"table", "no_tool", "tool_not_table", "maturin_not_table"}

\* the tool part of a pyproject.toml around the entries of tool.maturin
ToolPart(shape, entries) ==
    CASE shape = "table" -> <<KV("tool", DictV(<<KV("maturin", DictV(entries))>>))>>
      [] shape = "no_tool" -> <<>>
      [] shape = "tool_not_table" -> <<KV("tool", IntV)>>
      [] shape = "maturin_not_table" -> <<KV("tool", DictV(<<KV("maturin", ListV(<<>>))>>))>>

\* c: the shapes and strings of the keys the resolver reads
Pyproject(c) ==
    ToolPart(c.maturin,
             Leaf("manifest-path", c.manifest_path, c.manifest_path_s)
                 \o Leaf("module-name", c.module_name, c.module_name_s)
                 \o Leaf("python-source", c.python_source, c.python_source_s)
                 \o PackagesLeaf(c.python_packages))
        \o Build(<<"project", "name">>, c.project_name, c.project_name_s)

(***************************************************************************)
(* SpecPyRoot: _resolve_py_root                                            *)
(***************************************************************************)
S_a_b == <<"a", "-", "b">>
S_py == <<"p", "y">>
NameShapes == {"no_root", "root_not_table", "missing", "int", "empty", "string"}

InitPyRoot ==
    /\ \E maturin \in MaturinShapes, source \in LeafShapes, packages \in PackagesShapes,
          name \in NameShapes, rust \in {"missing", "parsed"},
          marker \in {"missing", "file", "dir"}, hyphen \in BOOLEAN, pk \in BOOLEAN :
          LET c == [maturin |-> maturin,
                    manifest_path |-> "missing", manifest_path_s |-> <<>>,
                    module_name |-> "missing", module_name_s |-> <<>>,
                    python_source |-> source, python_source_s |-> S_py,
                    python_packages |-> packages,
                    project_name |-> name, project_name_s |-> S_a_b,
                    rust |-> rust, marker |-> marker, hyphen |-> hyphen, pk |-> pk]
          IN  /\ args = [project_dir |-> ProjectDir, c |-> c, pyproject |-> Pyproject(c)]
              /\ fs = FsOf(
                     TomlEntries(JoinStr(ProjectDir, S_rust_cargo), rust, <<>>)
                     \cup (IF marker = "file"
                           THEN {At(<< <<"p">>, S_src, <<"a", "_", "b">>, S_init >>,
                                    FileEntry(FALSE, <<>>))}
                           ELSE IF marker = "dir"
                           THEN {At(<< <<"p">>, S_src, <<"a", "_", "b">>, S_init >>,
                                    DirEntry)}
                           ELSE {})
                     \cup (IF hyphen
                           THEN {At(<< <<"p">>, S_src, S_a_b, S_init >>,
                                    FileEntry(FALSE, <<>>))}
                           ELSE {})
                     \cup (IF pk
                           THEN {At(<< <<"p">>, S_pk, S_init >>, FileEntry(FALSE, <<>>))}
                           ELSE {}))
    /\ out = Idle
    /\ pc = "call"
    /\ cache = Idle /\ last = Idle /\ reads = Idle
    /\ to_search = Idle /\ all_path_dependencies = Idle /\ loads = Idle

CallResolvePyRoot ==
    /\ pc = "call"
    /\ out' = resolve_py_root(fs, args.project_dir, args.pyproject)
    /\ pc' = "done"
    /\ UNCHANGED <<fs, cache, last, reads, args, to_search, all_path_dependencies, loads>>

NextPyRoot == CallResolvePyRoot

SpecPyRoot == InitPyRoot /\ [][NextPyRoot]_vars

\* the strings listed in tool.maturin.python-packages, and whether it also
\* lists something that is not a string
ListedDirs(c) ==
    IF c.maturin = "table" /\ IsList(c.python_packages)
    THEN {PackagesList(c.python_packages)[i].v :
              i \in {j \in 1..Len(PackagesList(c.python_packages)) :
                         PackagesList(c.python_packages)[j].t = "str"}}
    ELSE {}

ListsNonString(c) ==
    /\ c.maturin = "table" /\ IsList(c.python_packages)
    /\ \E i \in 1..Len(PackagesList(c.python_packages)) :
           PackagesList(c.python_packages)[i].t # "str"

MaxSeeds == 2

\* the crates, in the order of their paths /a, /b, /c
CrateNames == <<"a", "b", "c">>
Crates == {CrateNames[i] : i \in 1..Len(CrateNames)}
CrateDir(n) == << <<n>> >>

DepKeys == <<"d1", "d2", "d3", "d4", "d5", "d6">>

\* a Cargo.toml whose dependencies are a version string, a table without a
\* path, and path dependencies "../<target>" in the order given
CrateManifest(targets) ==
    <<KV("package", DictV(<<KV("name", StrV(<<"x">>))>>)),
      KV("dependencies",
         DictV(<<KV("ver", StrV(<<"1">>)),
                 KV("tbl", DictV(<<KV("version", StrV(<<"1">>))>>))>>
               \o [i \in 1..Len(targets) |->
                      KV(DepKeys[i],
                         DictV(<<KV("path", StrV(<<".", ".", "/", targets[i]>>))>>))]))>>

\* per crate: no Cargo.toml, or the targets of its path dependencies
DepLists == {<<>>} \cup {<<x>> : x \in Crates}
                \cup {t \in Crates \X Crates : t[1] # t[2]}
ManifestChoices == {[manifest |-> FALSE, targets |-> <<>>]}
                       \cup {[manifest |-> TRUE, targets |-> t] : t \in DepLists}
\* /a and /b take every choice; /c has no Cargo.toml, one without path
\* dependencies, or one that leads back to /a (so that a -> b -> c -> a exists)
Graphs == {g \in [Crates -> ManifestChoices] :
               g["c"].targets \in {<<>>, <<"a">>}}
SeedLists == UNION {[1..k -> Crates] : k \in 0..MaxSeeds}

InitWalk ==
    /\ \E graph \in Graphs, seeds \in SeedLists :
          /\ args = [graph |-> graph, seeds |-> seeds,
                     immediate_path_dependencies |->
                         [i \in 1..Len(seeds) |-> CrateDir(seeds[i])]]
          /\ fs = FsOf({At(CrateDir(n) \o <<S_cargo>>,
                           FileEntry(TRUE, CrateManifest(graph[n].targets))) :
                        n \in {m \in Crates : graph[m].manifest}})
    /\ out = Idle
    /\ pc = "call"
    /\ to_search = <<>>
    /\ all_path_dependencies = {}
    /\ loads = [n \in Crates |-> 0]
    /\ cache = Idle /\ last = Idle /\ reads = Idle

\* lines 134-137: an empty seed list returns [] at once
WalkStart ==
    /\ pc = "call"
    /\ IF args.immediate_path_dependencies = <<>>
       THEN /\ out' = <<>>
            /\ pc' = "done"
            /\ UNCHANGED to_search
       ELSE /\ to_search' = args.immediate_path_dependencies
            /\ pc' = "loop"
            /\ UNCHANGED out
    /\ all_path_dependencies' = {}
    /\ UNCHANGED <<fs, cache, last, reads, args, loads>>

\* the body of the loop without the test of line 140; C5_Closure tells it
\* from WalkBody
WalkBodyRevisiting(f, work, visited) ==
    LET dependency_project_dir == work[Len(work)]
        rest == SubSeq(work, 1, Len(work) - 1)
        manifest_path == JoinStr(dependency_project_dir, S_cargo)
        found == get_immediate_path_dependencies(dependency_project_dir,
                                                 Load(f, manifest_path))
        seen == visited \cup {dependency_project_dir}
    IN  IF ~Exists(f, manifest_path)
        THEN [to_search |-> rest, visited |-> seen, loaded |-> NoPath, exc |-> "none"]
        ELSE IF LoadError(f, manifest_path) # "none"
        THEN [to_search |-> rest, visited |-> seen,
              loaded |-> SomePath(dependency_project_dir),
              exc |-> LoadError(f, manifest_path)]
        ELSE IF found.exc # "none"
        THEN [to_search |-> rest, visited |-> seen,
              loaded |-> SomePath(dependency_project_dir), exc |-> found.exc]
        ELSE [to_search |-> rest \o found.deps, visited |-> seen,
              loaded |-> SomePath(dependency_project_dir), exc |-> "none"]

\* lines 139-146: the body of the loop on a non-empty work list; list.pop()
\* takes the last element.  The result names the next work list and visited
\* set, the directory whose Cargo.toml was loaded (if any) and what was raised.
WalkBody(f, work, visited) ==
    LET dependency_project_dir == work[Len(work)]
        rest == SubSeq(work, 1, Len(work) - 1)
        manifest_path == JoinStr(dependency_project_dir, S_cargo)
        found == get_immediate_path_dependencies(dependency_project_dir,
                                                 Load(f, manifest_path))
        seen == visited \cup {dependency_project_dir}
    IN  IF dependency_project_dir \in visited
        THEN [to_search |-> rest, visited |-> visited, loaded |-> NoPath, exc |-> "none"]
        ELSE IF ~Exists(f, manifest_path)
        THEN [to_search |-> rest, visited |-> seen, loaded |-> NoPath, exc |-> "none"]
        ELSE IF LoadError(f, manifest_path) # "none"
        THEN [to_search |-> rest, visited |-> seen,
              loaded |-> SomePath(dependency_project_dir),
              exc |-> LoadError(f, manifest_path)]
        ELSE IF found.exc # "none"
        THEN [to_search |-> rest, visited |-> seen,
              loaded |-> SomePath(dependency_project_dir), exc |-> found.exc]
        ELSE [to_search |-> rest \o found.deps, visited |-> seen,
              loaded |-> SomePath(dependency_project_dir), exc |-> "none"]

\* lines 138-146: one iteration of the loop
WalkIteration ==
    /\ pc = "loop"
    /\ to_search # <<>>
    /\ LET r == WalkBody(fs, to_search, all_path_dependencies) IN
          /\ to_search' = r.to_search
          /\ all_path_dependencies' = r.visited
          /\ loads' = [n \in Crates |->
                          IF r.loaded = SomePath(CrateDir(n))
                          THEN loads[n] + 1 ELSE loads[n]]
          /\ pc' = IF r.exc = "none" THEN "loop" ELSE "raised"
          /\ out' = IF r.exc = "none" THEN out ELSE r.exc
    /\ UNCHANGED <<fs, cache, last, reads, args>>

\* line 147: the loop is over, the visited set is returned sorted
WalkReturn ==
    /\ pc = "loop"
    /\ to_search = <<>>
    /\ out' = Sorted(all_path_dependencies)
    /\ pc' = "done"
    /\ UNCHANGED <<fs, cache, last, reads, args, to_search, all_path_dependencies, loads>>

NextWalk == WalkStart \/ WalkIteration \/ WalkReturn

SpecWalk == InitWalk /\ [][NextWalk]_vars

\* the crates reachable from a set of crates along path dependencies
RECURSIVE Reachable(_, _)
Reachable(graph, S) ==
    LET T == S \cup UNION {{graph[n].targets[i] : i \in 1..Len(graph[n].targets)} : n \in S}
    IN  IF T = S THEN S ELSE Reachable(graph, T)

SeedSet == {args.seeds[i] : i \in 1..Len(args.seeds)}

\* the directories of the reachable crates, in the order /a, /b, /c
ExpectedClosure ==
    LET reach == Reachable(args.graph, SeedSet)
        names == SelectSeq(CrateNames, LAMBDA n : n \in reach)
    IN  [i \in 1..Len(names) |-> CrateDir(names[i])]

C5_Safety ==
    /\ \A n \in Crates : loads[n] <= 1
    /\ pc # "raised"
    /\ pc = "done" =>
          /\ out = ExpectedClosure
          /\ \A i \in 1..Len(args.seeds) :
                 \E j \in 1..Len(out) : out[j] = CrateDir(args.seeds[i])
          /\ \A i, j \in 1..Len(out) : i # j => out[i] # out[j]

\* a measure of the work left: the unvisited crates weigh more than the
\* entries a visit can add to the work list
WalkMeasure ==
    CASE pc = "call" -> Len(CrateNames) * 3 + Len(args.seeds) + 2
      [] pc = "loop" -> (Len(CrateNames) - Cardinality(all_path_dependencies)) * 3
                            + Len(to_search) + 1
      [] OTHER -> 0

\* C5: on every graph of path dependencies, cycles and self-references
\* included, the closure of any seed list terminates (every step lowers a
\* natural-number measure of the work left, and the walk is never stuck
\* before it returns), loads each directory's Cargo.toml at most once, and
\* returns exactly the directories reachable from the seeds (every seed among
\* them), each once, in the sorted order, whatever the order in which seeds
\* and dependencies are listed.
C5_Closure ==
    /\ []C5_Safety
    /\ [](pc \in {"call", "loop", "done"} /\ WalkMeasure >= 0)
    /\ [][WalkMeasure' < WalkMeasure]_vars

\* the cycle a -> b -> a, entered at a, returned as [/a, /b]
C5_Witness ==
    /\ pc = "done"
    /\ args.seeds = <<"a">>
    /\ args.graph["a"].targets = <<"b">>
    /\ args.graph["b"].targets = <<"a">>
    /\ out = << CrateDir("a"), CrateDir("b") >>
    /\ loads["a"] = 1 /\ loads["b"] = 1

(***************************************************************************)
(* ProjectResolver                                                         *)
(***************************************************************************)
OtherDir == << <<"q">> >>
ProjectDirs == {ProjectDir, OtherDir}

\* a cache slot: cached says whether the directory is a key of the dict; a
\* cached None has some = FALSE
NotCached == [cached |-> FALSE, some |-> FALSE, proj |-> NoProject]
Cached(some, proj) == [cached |-> TRUE, some |-> some, proj |-> proj]

\* how a call of resolve() ended: it returned a project, returned None, or
\* let the exception exc escape
NeverCalled == [called |-> FALSE, exc |-> "none", some |-> FALSE, proj |-> NoProject]
Returned(some, proj) == [called |-> TRUE, exc |-> "none", some |-> some, proj |-> proj]
Escaped(e) == [called |-> TRUE, exc |-> e, some |-> FALSE, proj |-> NoProject]

\* ProjectResolver.resolve(project_dir) on the cache c: the cache afterwards,
\* how the call ended, and whether _resolve_project ran
resolve(f, c, project_dir) ==
    IF ~c[project_dir].cached
    THEN Local(resolve_project(f, project_dir), LAMBDA r :
         IF r.exc = "none"
         THEN [cache |-> [c EXCEPT ![project_dir] = Cached(TRUE, r.proj)],
               ret |-> Returned(TRUE, r.proj), ran |-> TRUE]
         ELSE IF r.exc = "_ProjectResolveError"
         THEN [cache |-> [c EXCEPT ![project_dir] = Cached(FALSE, NoProject)],
               ret |-> Returned(FALSE, NoProject), ran |-> TRUE]
         ELSE [cache |-> c, ret |-> Escaped(r.exc), ran |-> TRUE])
    ELSE [cache |-> c, ret |-> Returned(c[project_dir].some, c[project_dir].proj),
          ran |-> FALSE]

MaxReads == 2

\* a caller resolves the directory d; reads counts the runs of _resolve_project
Resolve(d) ==
    /\ cache[d].cached \/ reads[d] < MaxReads
    /\ \E r \in {resolve(fs, cache, d)} :
          /\ cache' = r.cache
          /\ last' = [last EXCEPT ![d] = r.ret]
          /\ reads' = [reads EXCEPT ![d] = IF r.ran THEN @ + 1 ELSE @]
    /\ UNCHANGED <<fs, args, out, pc, to_search, all_path_dependencies, loads>>

(***************************************************************************)
(* Spec: one resolver, two project directories, and a filesystem that      *)
(* changes between the calls                                               *)
(***************************************************************************)
NamedPyproject == Wrap(<<"tool", "maturin", "module-name">>, 1, StrV(<<"a">>))
PlainCargo == Wrap(<<"package", "name">>, 1, StrV(<<"c">>))

\* what may be written: a pyproject.toml that parses or not, a Cargo.toml
Writes ==
    UNION {{At(JoinStr(d, S_pyproject), FileEntry(TRUE, NamedPyproject)),
            At(JoinStr(d, S_pyproject), FileEntry(FALSE, <<>>)),
            At(JoinStr(d, S_cargo), FileEntry(TRUE, PlainCargo))} : d \in ProjectDirs}

Init ==
    /\ fs = FsOf({})
    /\ cache = [d \in ProjectDirs |-> NotCached]
    /\ last = [d \in ProjectDirs |-> NeverCalled]
    /\ reads = [d \in ProjectDirs |-> 0]
    /\ args = Idle /\ out = Idle /\ pc = Idle
    /\ to_search = Idle /\ all_path_dependencies = Idle /\ loads = Idle

\* a file is created or overwritten
WriteFile ==
    /\ \E w \in Writes :
          fs' = [q \in DOMAIN fs \cup {w.path} |-> IF q = w.path THEN w.entry ELSE fs[q]]
    /\ UNCHANGED <<cache, last, reads, args, out, pc, to_search,
                   all_path_dependencies, loads>>

\* a file is deleted
RemoveFile ==
    /\ \E path \in DOMAIN fs : fs' = [q \in DOMAIN fs \ {path} |-> fs[q]]
    /\ UNCHANGED <<cache, last, reads, args, out, pc, to_search,
                   all_path_dependencies, loads>>

Next == (\E d \in ProjectDirs : Resolve(d)) \/ WriteFile \/ RemoveFile

Spec == Init /\ [][Next]_vars

\* C2: once a resolve(project_dir) call on a resolver has finished, with a
\* project, with None or with any other failure, every later call for that
\* directory ends the same way and does not run _resolve_project again,
\* whatever happened to the files in between.
C2_ComputedOnce ==
    [][\A d \in ProjectDirs :
           last[d].called => (last'[d] = last[d] /\ reads'[d] = reads[d])]_vars

(***************************************************************************)
(* SpecResolve: one resolve() of a project directory, over the shapes of   *)
(* both config files and of the directory                                  *)
(***************************************************************************)
S_a_b_c == <<"a", ".", "b", ".", "c">>
S_missing_manifest == <<"x", "/">> \o S_cargo

\* pyproject.toml: the keys of tool.maturin vary only where it is a table
PyChoices ==
    {c \in [maturin : MaturinShapes,
            manifest_path : {"missing", "string"},
            module_name : {"missing", "int", "empty", "string"},
            python_source : {"missing", "string"},
            python_packages : {"missing", "listed", "bad"},
            project_name : {"missing", "string"}] :
        c.maturin # "table" =>
            /\ c.manifest_path = "missing" /\ c.module_name = "missing"
            /\ c.python_source = "missing" /\ c.python_packages = "missing"}

NoPyChoice == [maturin |-> "no_tool", manifest_path |-> "missing",
               module_name |-> "missing", python_source |-> "missing",
               python_packages |-> "missing", project_name |-> "missing"]

PyprojectFor(c) ==
    Pyproject([maturin |-> c.maturin,
               manifest_path |-> c.manifest_path, manifest_path_s |-> S_missing_manifest,
               module_name |-> c.module_name, module_name_s |-> S_a_b_c,
               python_source |-> c.python_source, python_source_s |-> S_py,
               python_packages |-> c.python_packages,
               project_name |-> c.project_name, project_name_s |-> S_a_b])

\* Cargo.toml: lib.name, package.name and the dependencies table
CargoChoices == [lib : {"missing", "string"}, package : {"missing", "string"},
                 deps : {"missing", "int", "good", "bad"}]

NoCargoChoice == [lib |-> "missing", package |-> "missing", deps |-> "missing"]

Dependencies(shape) ==
    CASE shape = "missing" -> <<>>
      [] shape = "int" -> <<KV("dependencies", IntV)>>
      [] shape = "good" ->
          <<KV("dependencies",
               DictV(<<KV("ver", StrV(<<"1">>)),
                       KV("dep", DictV(<<KV("path", StrV(<<".", ".", "/", "q">>))>>))>>))>>
      [] shape = "bad" ->
          <<KV("dependencies", DictV(<<KV("dep", DictV(<<KV("path", IntV)>>))>>))>>
      [] shape = "no_path" ->
          <<KV("dependencies", DictV(<<KV("dep", DictV(<<>>))>>))>>

CargoFor(k) ==
    Build(<<"lib", "name">>, k.lib, <<"c">>)
        \o Build(<<"package", "name">>, k.package, <<"d">>)
        \o Dependencies(k.deps)

\* the directories that may exist below the project directory
DirChoices == {<<>>, << <<"a">> >>, << <<"a">>, <<"b">> >>, << <<"c">> >>,
               << S_py, <<"a">> >>}

\* the files of the project directory for the choices a
ResolveFs(a) ==
    FsOf(TomlEntries(JoinStr(ProjectDir, S_pyproject), a.pyproject, PyprojectFor(a.c))
         \cup TomlEntries(JoinStr(ProjectDir, S_cargo), a.cargo, CargoFor(a.k))
         \cup TomlEntries(JoinStr(ProjectDir, S_rust_cargo), a.rust, PlainCargo)
         \cup (IF a.dir = <<>> THEN {} ELSE {At(ProjectDir \o a.dir, DirEntry)})
         \cup (IF a.marker
               THEN {At(ProjectDir \o <<S_src, <<"a", "_", "b">>, S_init>>,
                        FileEntry(FALSE, <<>>))}
               ELSE {}))

ResolveChoices ==
    {a \in [pyproject : {"missing", "garbage", "parsed"}, c : PyChoices,
            cargo : {"missing", "garbage", "parsed"}, k : CargoChoices,
            rust : {"missing", "parsed"}, dir : DirChoices, marker : BOOLEAN] :
        /\ a.pyproject # "parsed" => a.c = NoPyChoice
        /\ a.cargo # "parsed" => a.k = NoCargoChoice}

InitResolve ==
    /\ \E a \in ResolveChoices : args = a /\ fs = ResolveFs(a)
    /\ cache = [d \in ProjectDirs |-> NotCached]
    /\ last = [d \in ProjectDirs |-> NeverCalled]
    /\ reads = [d \in ProjectDirs |-> 0]
    /\ out = Idle /\ pc = Idle
    /\ to_search = Idle /\ all_path_dependencies = Idle /\ loads = Idle

NextResolve == Resolve(ProjectDir)

SpecResolve == InitResolve /\ [][NextResolve]_vars

Resolved == last[ProjectDir]

\* C3: every resolve() ends with a project or with None; a missing or
\* unparsable pyproject.toml or Cargo.toml (a Cargo.toml named by
\* manifest-path that does not exist included) gives None, never an
\* exception that escapes resolve().
C3_RecordOrAbsent == Resolved.called => Resolved.exc = "none"

\* the part of a dotted name before its first "."
FirstComponent(s) ==
    LET dots == {i \in 1..Len(s) : s[i] = "."} IN
    IF dots = {} THEN s
    ELSE SubSeq(s, 1, (CHOOSE i \in dots : \A j \in dots : i <= j) - 1)

\* C4: in every project returned by resolve(), python_module and
\* extension_module_dir are both present or both absent; they are present
\* exactly when python_dir / <first dotted component of the module name>
\* exists on disk, and then they are the paths _resolve_rust_module computes.
C4_LayoutPresence ==
    (Resolved.called /\ Resolved.exc = "none" /\ Resolved.some) =>
        LET r == Resolved.proj
            layout == resolve_rust_module(r.python_dir, r.module_full_name)
        IN  /\ r.python_module.some <=> r.extension_module_dir.some
            /\ r.python_module.some <=>
                   Exists(fs, Under(r.python_dir, <<FirstComponent(r.module_full_name)>>))
            /\ r.python_module.some =>
                   /\ r.python_module.p = layout.python_module
                   /\ r.extension_module_dir.p = layout.extension_module_dir

\* a.b.c with the directory a on disk but not a/b: both paths are present
C4_Witness ==
    /\ Resolved.called /\ Resolved.some
    /\ Resolved.proj.module_full_name = S_a_b_c
    /\ args.dir = << <<"a">> >>
    /\ Resolved.proj.python_module = SomePath(<< <<"p">>, <<"a">> >>)
    /\ Resolved.proj.extension_module_dir = SomePath(<< <<"p">>, <<"a">>, <<"b">> >>)
    /\ ~Exists(fs, Resolved.proj.extension_module_dir.p)

\* C7: the module_full_name of every project returned by resolve() is not
\* empty and has a dotted component that is not empty, whatever the config
\* files hold.
C7_NonEmptyName ==
    (Resolved.called /\ Resolved.exc = "none" /\ Resolved.some) =>
        \E i \in 1..Len(Resolved.proj.module_full_name) :
            Resolved.proj.module_full_name[i] # "."

\* the choices with every ill-typed or ill-shaped key taken out of its file
WithoutMalformed(a) ==
    [a EXCEPT
        !.c = [@ EXCEPT
                  !.maturin = IF @ \in {"tool_not_table", "maturin_not_table"}
                              THEN "no_tool" ELSE @,
                  !.module_name = IF @ = "int" THEN "missing" ELSE @,
                  !.python_packages = IF @ = "bad" THEN "missing" ELSE @],
        !.k = [@ EXCEPT
                  !.deps = IF @ = "int" THEN "missing"
                           ELSE IF @ = "bad" THEN "no_path" ELSE @]]

\* C10: a key of the wrong type or shape, or below a parent that is not a
\* table, never aborts resolve(): the call ends as it would with that key
\* absent.
C10_MalformedIsAbsent ==
    Resolved.called =>
        Resolved = resolve(ResolveFs(WithoutMalformed(args)),
                           [d \in ProjectDirs |-> NotCached], ProjectDir).ret

====
